---- MODULE Spec2Model ----
(***************************************************************************)
(* petlib/cipher.py: the Cipher descriptor, the CipherOperation session    *)
(* and the OpenSSL EVP primitive the session drives.                       *)
(*                                                                         *)
(* The wrapper (Cipher.op and the CipherOperation methods) is translated   *)
(* from                                                                    *)
(* src/petlib/cipher.py.  The primitive library behind bindings._C is not  *)
(* part of the source; it is modelled after the EVP interface of           *)
(* OpenSSL 1.0.x, the API the wrapper is written against                   *)
(* (EVP_CIPHER_CTX_init / _cleanup, direct reads of alg.iv_len).           *)
(*                                                                         *)
(* Scaling.  Keys and IVs are abstract values with a length and an         *)
(* identity; payload and associated data are sequences of small bytes;     *)
(* the block cipher works on blocks of BlockLen bytes; the GCM tag is an   *)
(* ideal MAC: the tuple of everything it authenticates.                    *)
(***************************************************************************)
EXTENDS Integers, Sequences, FiniteSets, TLC

\* ----------------------------------------------------------------- bounds
\* Block size of the block-mode cipher of the model (AES's is 16).
BlockLen == 2
\* Longest chunk a single update / update_associated call is given.
MaxChunk == 2
\* Most payload bytes one block-mode session is fed in total.
MaxTotal == 4
\* Most payload bytes one stream-mode or GCM session is fed in total.
MaxStream == 2
\* Most associated-data bytes one session is fed in total.
MaxAad == 1

\* Byte values: 0..BlockLen, so that every padding byte 1..BlockLen exists.
NB == BlockLen + 1
Byte == 0 .. (NB - 1)

Take(s, n) == SubSeq(s, 1, n)
Drop(s, n) == SubSeq(s, n + 1, Len(s))
SeqsUpTo(S, n) == UNION {[1 .. k -> S] : k \in 0 .. n}
Mod(a) == ((a % NB) + NB) % NB

\* ------------------------------------------------- values of the primitive
\* A null pointer argument (_FFI.NULL) for a key or an IV.
NULLARG == [len |-> 0, id |-> 0, null |-> TRUE]
\* The cipher handle of a context that has none (ctx->cipher == NULL).
NoCipher == [mode |-> "NULL", key_len |-> 0, iv_len |-> 0, block_size |-> 0]
\* No tag in ctx->buf.
NoTag == [mac |-> <<>>, len |-> 0]
\* The GHASH state after CRYPTO_gcm128_finish has already consumed it.
SpentMac == <<"spent">>

\* EVP_aes_128_cbc(), EVP_aes_128_ctr(), EVP_aes_128_gcm(): the EVP_CIPHER
\* structures the wrapper reads key_len, iv_len and block_size from.
EVP_aes_128_cbc == [mode |-> "CBC", key_len |-> 16, iv_len |-> 16, block_size |-> BlockLen]
EVP_aes_128_ctr == [mode |-> "CTR", key_len |-> 16, iv_len |-> 16, block_size |-> 1]
EVP_aes_128_ccm == [mode |-> "CCM", key_len |-> 16, iv_len |-> 12, block_size |-> 1]
EVP_aes_128_gcm == [mode |-> "GCM", key_len |-> 16, iv_len |-> 12, block_size |-> 1]

\* EVP_CIPHER_CTX_new + EVP_CIPHER_CTX_init: a zeroed context.
EVP_CIPHER_CTX_new ==
  [cipher |-> NoCipher, encrypt |-> 0, key |-> NULLARG, iv |-> NULLARG,
   chain |-> <<>>, num |-> 0, buf |-> <<>>, final |-> <<>>, final_used |-> FALSE,
   key_set |-> FALSE, iv_set |-> FALSE, ivlen |-> 0, taglen |-> -1, tag |-> NoTag,
   aad |-> <<>>, data |-> <<>>, spent |-> FALSE]

\* ------------------------------------------------------ the toy transforms
\* Key stream byte n of the counter modes.
KeyStream(key, iv, n) == Mod(key.id + 2 * iv.id + n)

\* The working IV of CBC: the block the IV stands for.
IVBlock(iv) == [j \in 1 .. BlockLen |-> Mod(iv.id)]

EncBlock(key, chain, p) == [j \in 1 .. Len(p) |-> Mod(p[j] + chain[j] + key.id)]
DecBlock(key, chain, c) == [j \in 1 .. Len(c) |-> Mod(c[j] - chain[j] - key.id)]

\* do_cipher of CBC over a whole number of blocks.
RECURSIVE aes_cbc_cipher(_, _, _, _)
aes_cbc_cipher(key, chain, enc, in) ==
  IF Len(in) = 0 THEN [out |-> <<>>, chain |-> chain]
  ELSE LET blk == Take(in, BlockLen)
           o == IF enc = 1 THEN EncBlock(key, chain, blk) ELSE DecBlock(key, chain, blk)
           rest == aes_cbc_cipher(key, IF enc = 1 THEN o ELSE blk, enc, Drop(in, BlockLen))
       IN [out |-> o \o rest.out, chain |-> rest.chain]

\* do_cipher of CTR (and the payload transform of GCM) from stream position num.
\* (The real transform is an XOR, its own inverse; here encryption adds the
\* key stream and decryption subtracts it.)
aes_ctr_cipher(key, iv, num, enc, in) ==
  [j \in 1 .. Len(in) |->
     IF enc = 1 THEN Mod(in[j] + KeyStream(key, iv, num + j - 1))
     ELSE Mod(in[j] - KeyStream(key, iv, num + j - 1))]

\* The GCM tag over (key, iv, aad, ciphertext), as an ideal MAC.
GcmMac(ctx) == IF ctx.spent THEN SpentMac ELSE <<ctx.key.id, ctx.iv, ctx.aad, ctx.data>>

\* --------------------------------------------------- the EVP primitive calls
\* Every call returns a record: ret (the C return value), ctx (the context
\* after the call), out (the bytes reported through outl, or the tag),
\* wrote (the extent of the output buffer the call wrote) and nullwrite
\* (the call wrote through a null output pointer).
PrimRet(r, c, o, w, nw) == [ret |-> r, ctx |-> c, out |-> o, wrote |-> w, nullwrite |-> nw]

\* aes_gcm_ctrl, EVP_CTRL_INIT: run by EVP_CipherInit_ex when a cipher is bound.
aes_gcm_ctrl_init(ctx) ==
  [ctx EXCEPT !.key_set = FALSE, !.iv_set = FALSE, !.ivlen = ctx.cipher.iv_len,
              !.taglen = -1, !.tag = NoTag, !.aad = <<>>, !.data = <<>>, !.spent = FALSE]

\* CRYPTO_gcm128_setiv: a fresh GHASH and counter state under iv.
gcm_setiv(ctx, iv) ==
  [ctx EXCEPT !.iv = iv, !.iv_set = TRUE, !.aad = <<>>, !.data = <<>>, !.spent = FALSE]

\* aes_gcm_init_key: binds the key and/or the IV of a GCM context.
aes_gcm_init_key(ctx, key, iv) ==
  IF key.null /\ iv.null THEN ctx
  ELSE IF ~key.null
       THEN IF ~iv.null THEN gcm_setiv([ctx EXCEPT !.key = key, !.key_set = TRUE], iv)
            ELSE [ctx EXCEPT !.key = key, !.key_set = TRUE]
       ELSE IF ctx.key_set THEN gcm_setiv(ctx, iv)
            ELSE [ctx EXCEPT !.iv = iv]

\* The part of EVP_CipherInit_ex after the cipher is bound: the IV and key of
\* the non-custom modes, or the cipher's own init; then the buffers are reset.
CipherInit_bind(c1, key, iv) ==
  IF c1.cipher.mode = "GCM"
  THEN [aes_gcm_init_key(c1, key, iv) EXCEPT !.buf = <<>>, !.final_used = FALSE]
  ELSE [c1 EXCEPT !.iv = IF iv.null THEN @ ELSE iv,
                  !.chain = IF iv.null THEN @ ELSE IVBlock(iv),
                  !.num = 0,
                  !.key = IF key.null THEN @ ELSE key,
                  !.buf = <<>>, !.final_used = FALSE]

\* The part of EVP_CipherInit_ex that binds the cipher handle, if one is given.
CipherInit_cipher(c0, cipher) ==
  IF cipher = NoCipher THEN c0
  ELSE IF cipher.mode = "GCM" THEN aes_gcm_ctrl_init([c0 EXCEPT !.cipher = cipher])
  ELSE [c0 EXCEPT !.cipher = cipher]

\* EVP_CipherInit_ex(ctx, cipher, NULL, key, iv, enc).
EVP_CipherInit_ex(ctx, cipher, key, iv, enc) ==
  IF cipher = NoCipher /\ ctx.cipher = NoCipher
  THEN PrimRet(0, [ctx EXCEPT !.encrypt = IF enc # 0 THEN 1 ELSE 0], <<>>, 0, FALSE)
  ELSE PrimRet(1, CipherInit_bind(
                    CipherInit_cipher([ctx EXCEPT !.encrypt = IF enc # 0 THEN 1 ELSE 0],
                                      cipher), key, iv),
               <<>>, 0, FALSE)

\* EVP_CIPHER_CTX_ctrl(ctx, type, arg, ptr): only GCM has a ctrl function.
\* For EVP_CTRL_GCM_SET_TAG ptr is the tag; arg is its length.
EVP_CIPHER_CTX_ctrl(ctx, type, arg, ptr) ==
  IF ctx.cipher.mode # "GCM" THEN PrimRet(0, ctx, NoTag, 0, FALSE)
  ELSE CASE type = "EVP_CTRL_GCM_SET_IVLEN" ->
              IF arg <= 0 THEN PrimRet(0, ctx, NoTag, 0, FALSE)
              ELSE PrimRet(1, [ctx EXCEPT !.ivlen = arg], NoTag, 0, FALSE)
         [] type = "EVP_CTRL_GCM_SET_TAG" ->
              IF arg <= 0 \/ arg > 16 \/ ctx.encrypt = 1
              THEN PrimRet(0, ctx, NoTag, 0, FALSE)
              ELSE PrimRet(1, [ctx EXCEPT !.tag = ptr, !.taglen = arg], NoTag, 0, FALSE)
         [] type = "EVP_CTRL_GCM_GET_TAG" ->
              IF arg <= 0 \/ arg > 16 \/ ctx.encrypt = 0 \/ ctx.taglen < 0
              THEN PrimRet(0, ctx, NoTag, 0, FALSE)
              ELSE PrimRet(1, ctx, [mac |-> ctx.tag.mac, len |-> arg], arg, FALSE)
         [] OTHER -> PrimRet(0, ctx, NoTag, 0, FALSE)

\* The payload branch of aes_gcm_cipher: o is the transformed input.
gcm_payload(ctx, in, o) ==
  PrimRet(Len(in), [ctx EXCEPT !.data = ctx.data \o (IF ctx.encrypt = 1 THEN o ELSE in)],
          o, Len(in), FALSE)

\* aes_gcm_cipher: do_cipher of GCM. in = NULL is the final call; out = NULL
\* with in # NULL absorbs associated data. Returns ret < 0 on failure, else
\* the number of bytes handled.
aes_gcm_cipher(ctx, outNull, inNull, in) ==
  IF ~ctx.key_set \/ ~ctx.iv_set THEN PrimRet(-1, ctx, <<>>, 0, FALSE)
  ELSE IF ~inNull
  THEN IF outNull
       THEN \* CRYPTO_gcm128_aad refuses once payload has been processed
            IF Len(ctx.data) > 0 THEN PrimRet(-1, ctx, <<>>, 0, FALSE)
            ELSE PrimRet(Len(in), [ctx EXCEPT !.aad = ctx.aad \o in], <<>>, 0, FALSE)
       ELSE gcm_payload(ctx, in,
                        aes_ctr_cipher(ctx.key, ctx.iv, Len(ctx.data), ctx.encrypt, in))
  ELSE IF ctx.encrypt = 0
       THEN IF ctx.taglen < 0 THEN PrimRet(-1, ctx, <<>>, 0, FALSE)
            ELSE IF GcmMac(ctx) # ctx.tag.mac
                 THEN PrimRet(-1, [ctx EXCEPT !.spent = TRUE], <<>>, 0, FALSE)
                 ELSE PrimRet(0, [ctx EXCEPT !.spent = TRUE, !.iv_set = FALSE], <<>>, 0, FALSE)
       ELSE PrimRet(0, [ctx EXCEPT !.tag = [mac |-> GcmMac(ctx), len |-> 16],
                                   !.taglen = 16, !.spent = TRUE, !.iv_set = FALSE],
                    <<>>, 0, FALSE)

\* The custom-cipher branch of EVP_EncryptUpdate, EVP_DecryptUpdate and the
\* final calls: r is what do_cipher returned.
CustomRet(ctx, r) ==
  IF r.ret < 0 THEN PrimRet(0, ctx, <<>>, 0, FALSE) ELSE [r EXCEPT !.ret = 1]

CustomCipher(ctx, outNull, inNull, in) ==
  CustomRet(ctx, aes_gcm_cipher(ctx, outNull, inNull, in))

\* The context after CBC's do_cipher came to r.
cbc_done(ctx, r) == [out |-> r.out, ctx |-> [ctx EXCEPT !.chain = r.chain]]

\* do_cipher of the non-custom modes over the whole blocks in proc.
do_cipher(ctx, proc) ==
  IF ctx.cipher.mode = "CBC"
  THEN cbc_done(ctx, aes_cbc_cipher(ctx.key, ctx.chain, ctx.encrypt, proc))
  ELSE [out |-> aes_ctr_cipher(ctx.key, ctx.iv, ctx.num, ctx.encrypt, proc),
        ctx |-> [ctx EXCEPT !.num = ctx.num + Len(proc)]]

\* EVP_EncryptUpdate once do_cipher has processed the first n bytes of total.
EncryptUpdate_done(total, n, outNull, r) ==
  PrimRet(1, [r.ctx EXCEPT !.buf = Drop(total, n)], r.out, n, outNull)

\* EVP_EncryptUpdate on total = the buffered bytes followed by the input:
\* the whole blocks are processed, the rest stays in ctx->buf.
EncryptUpdate_blocks(ctx, outNull, total, n) ==
  IF n = 0 THEN PrimRet(1, [ctx EXCEPT !.buf = total], <<>>, 0, FALSE)
  ELSE EncryptUpdate_done(total, n, outNull, do_cipher(ctx, Take(total, n)))

\* EVP_EncryptUpdate(ctx, out, outl, in, inl).
EVP_EncryptUpdate(ctx, outNull, in) ==
  IF ctx.cipher.mode = "GCM" THEN CustomCipher(ctx, outNull, FALSE, in)
  ELSE IF Len(in) = 0 THEN PrimRet(1, ctx, <<>>, 0, FALSE)
  ELSE EncryptUpdate_blocks(ctx, outNull, ctx.buf \o in,
         ((Len(ctx.buf) + Len(in)) \div ctx.cipher.block_size) * ctx.cipher.block_size)

\* EVP_DecryptUpdate after its call of EVP_EncryptUpdate came to e: with
\* padding, the last whole block is held back in ctx->final (keep is what is
\* reported of e's output); a block held back before (head) goes out first.
DecryptUpdate_fix(head, fix_len, outNull, e, hold, keep) ==
  PrimRet(1,
          IF hold THEN [e.ctx EXCEPT !.final_used = TRUE, !.final = Drop(e.out, keep)]
          ELSE [e.ctx EXCEPT !.final_used = FALSE],
          head \o Take(e.out, keep), Len(head) + e.wrote,
          outNull /\ (fix_len \/ e.nullwrite))

DecryptUpdate_hold(ctx, outNull, e) ==
  DecryptUpdate_fix(IF ctx.final_used THEN ctx.final ELSE <<>>, ctx.final_used, outNull, e,
                    ctx.cipher.block_size > 1 /\ Len(e.ctx.buf) = 0,
                    IF ctx.cipher.block_size > 1 /\ Len(e.ctx.buf) = 0
                    THEN Len(e.out) - ctx.cipher.block_size ELSE Len(e.out))

\* EVP_DecryptUpdate(ctx, out, outl, in, inl).
EVP_DecryptUpdate(ctx, outNull, in) ==
  IF ctx.cipher.mode = "GCM" THEN CustomCipher(ctx, outNull, FALSE, in)
  ELSE IF Len(in) = 0 THEN PrimRet(1, ctx, <<>>, 0, FALSE)
  ELSE DecryptUpdate_hold(ctx, outNull, EVP_EncryptUpdate(ctx, outNull, in))

\* EVP_CipherUpdate(ctx, out, outl, in, inl).
EVP_CipherUpdate(ctx, outNull, in) ==
  IF ctx.encrypt = 1 THEN EVP_EncryptUpdate(ctx, outNull, in)
  ELSE EVP_DecryptUpdate(ctx, outNull, in)

\* The padding block EVP_EncryptFinal_ex encrypts: the buffered bytes followed
\* by n bytes of value n.
PadBlock(buf, b) == buf \o [j \in 1 .. (b - Len(buf)) |-> b - Len(buf)]

\* Whether a decrypted final block ends in a valid padding.
PadOk(blk, b) ==
  blk[b] # 0 /\ blk[b] <= b /\ \A j \in (b - blk[b] + 1) .. b : blk[j] = blk[b]

\* EVP_EncryptFinal_ex once do_cipher has encrypted the padding block.
EncryptFinal_done(b, r) == PrimRet(1, r.ctx, r.out, b, FALSE)

\* EVP_CipherFinal_ex(ctx, out, outl).
EVP_CipherFinal_ex(ctx) ==
  IF ctx.cipher.mode = "GCM" THEN CustomCipher(ctx, FALSE, TRUE, <<>>)
  ELSE IF ctx.cipher.block_size = 1 THEN PrimRet(1, ctx, <<>>, 0, FALSE)
  ELSE IF ctx.encrypt = 1
       THEN EncryptFinal_done(ctx.cipher.block_size,
                              do_cipher(ctx, PadBlock(ctx.buf, ctx.cipher.block_size)))
       ELSE IF Len(ctx.buf) # 0 \/ ~ctx.final_used
            THEN PrimRet(0, ctx, <<>>, 0, FALSE)
            ELSE IF ~PadOk(ctx.final, ctx.cipher.block_size)
            THEN PrimRet(0, ctx, <<>>, 0, FALSE)
            ELSE PrimRet(1, ctx,
                         Take(ctx.final, ctx.cipher.block_size - ctx.final[ctx.cipher.block_size]),
                         ctx.cipher.block_size - ctx.final[ctx.cipher.block_size], FALSE)

\* ------------------------------------------------------------- the wrapper
\* A C return value (an int) or the value of a Python comparison (a bool),
\* as _check sees it.
CInt(v) == [type |-> "int", val |-> v]
PyBool(b) == [type |-> "bool", val |-> IF b THEN 1 ELSE 0]

\* _check(return_val): TRUE when it returns, FALSE when it raises.
check(return_val) ==
  \/ return_val.type = "int" /\ return_val.val = 1
  \/ return_val.type = "bool" /\ return_val.val = 1

\* The one exception _check raises.
CipherException == "Cipher exception"

\* The Cipher objects: the handle and the gcm flag set by Cipher.__init__.
Cipher_aes_128_cbc == [alg |-> EVP_aes_128_cbc, gcm |-> FALSE]
Cipher_aes_128_ctr == [alg |-> EVP_aes_128_ctr, gcm |-> FALSE]
Cipher_aes_128_gcm == [alg |-> EVP_aes_128_gcm, gcm |-> TRUE]
Ciphers == {Cipher_aes_128_cbc, Cipher_aes_128_ctr, Cipher_aes_128_gcm}
\* c_op.cipher = None
NoneCipher == [alg |-> NoCipher, gcm |-> FALSE]

\* A cipher name: its text; whether "gcm" and "ccm" occur in name.lower();
\* the handle EVP_get_cipherbyname returns for it (NoCipher for NULL).
Name(text, gcm, ccm, alg) == [text |-> text, gcm |-> gcm, ccm |-> ccm, alg |-> alg]
\* Cipher(None, _alg): no name is given.
NoName == Name("None", FALSE, FALSE, NoCipher)

\* What Cipher(...) comes to: the object made, or the exception raised.
Made(self) == [ok |-> TRUE, err |-> "", self |-> self]
Raised(err) == [ok |-> FALSE, err |-> err, self |-> NoneCipher]
UnknownCipher == "Unknown cipher"
CCMNotSupported == "CCM mode not supported"

\* Cipher.__init__ without the look at "ccm" in the name.
Cipher_init_no_ccm(name, alg) ==
  IF alg # NoCipher THEN Made([alg |-> alg, gcm |-> TRUE])
  ELSE IF name.alg = NoCipher THEN Raised(UnknownCipher)
  ELSE Made([alg |-> name.alg, gcm |-> name.gcm])

\* Cipher.__init__(name, _alg)
Cipher_init(name, alg) ==
  IF alg # NoCipher THEN Made([alg |-> alg, gcm |-> TRUE])
  ELSE IF name.alg = NoCipher THEN Raised(UnknownCipher)
  ELSE IF name.ccm THEN Raised(CCMNotSupported)
  ELSE Made([alg |-> name.alg, gcm |-> name.gcm])

\* Cipher.aes_128_gcm()
aes_128_gcm == Cipher_init(NoName, EVP_aes_128_gcm)

len_IV(self) == self.alg.iv_len
len_key(self) == self.alg.key_len
len_block(self) == self.alg.block_size

\* CipherOperation.__init__: a session object with a fresh context.
CipherOperation_init == [ctx |-> EVP_CIPHER_CTX_new, cipher |-> NoneCipher]
\* The primitive calls CipherOperation.__init__ makes.
InitCalls == <<"EVP_CIPHER_CTX_new", "EVP_CIPHER_CTX_init">>

\* What a wrapper call comes to: ok (it returned) or not (it raised err);
\* out, tag: what it returned; self: the session object after the call;
\* calls: the primitive calls it made, in order; stage: for op, the check
\* that raised; ub: the undefined behaviour the call ran into, if any.
Res(ok, out, tag, self, calls, stage, ub) ==
  [ok |-> ok, err |-> IF ok THEN "" ELSE CipherException, out |-> out, tag |-> tag,
   self |-> self, calls |-> calls, stage |-> stage, ub |-> ub]

\* op raising at a check of its own only after the context was given the
\* cipher, the key and the IV.
op_raise_after_init(stage) ==
  Res(FALSE, <<>>, NoTag, CipherOperation_init,
      InitCalls \o <<"EVP_CipherInit_ex(alg,key,iv)">>, stage, "none")

\* op raising at a check of its own, before any call on the context.
op_raise(stage) == Res(FALSE, <<>>, NoTag, CipherOperation_init, InitCalls, stage, "none")

\* op after the primitive call that came to r, the last of calls: it raises,
\* or goes on to rest (the session, when the call was the last one).
op_step(r, calls, rest) ==
  IF ~check(CInt(r.ret))
  THEN Res(FALSE, <<>>, NoTag, [ctx |-> r.ctx, cipher |-> NoneCipher], calls,
           "primitive", "none")
  ELSE rest

\* op returning the session after its last primitive call came to r.
op_return(self, r, calls) ==
  op_step(r, calls,
          Res(TRUE, <<>>, NoTag, [ctx |-> r.ctx, cipher |-> self], calls, "none", "none"))

\* The GCM branch of op after the nonce-length control call came to r2.
op_gcm_key(self, key, iv, enc, r2) ==
  op_step(r2, InitCalls \o <<"EVP_CipherInit_ex(alg,NULL,NULL)",
                             "EVP_CIPHER_CTX_ctrl(SET_IVLEN)">>,
          op_return(self, EVP_CipherInit_ex(r2.ctx, NoCipher, key, iv, enc),
                    InitCalls \o <<"EVP_CipherInit_ex(alg,NULL,NULL)",
                                   "EVP_CIPHER_CTX_ctrl(SET_IVLEN)",
                                   "EVP_CipherInit_ex(NULL,key,iv)">>))

\* The GCM branch of op binding key and IV before the nonce length is set.
op_gcm_key_first(self, key, iv, enc, r1) ==
  op_step(r1, InitCalls \o <<"EVP_CipherInit_ex(alg,NULL,NULL)">>,
          op_step(EVP_CipherInit_ex(r1.ctx, NoCipher, key, iv, enc),
                  InitCalls \o <<"EVP_CipherInit_ex(alg,NULL,NULL)",
                                 "EVP_CipherInit_ex(NULL,key,iv)">>,
                  op_return(self,
                            EVP_CIPHER_CTX_ctrl(
                              EVP_CipherInit_ex(r1.ctx, NoCipher, key, iv, enc).ctx,
                              "EVP_CTRL_GCM_SET_IVLEN", iv.len, NoTag),
                            InitCalls \o <<"EVP_CipherInit_ex(alg,NULL,NULL)",
                                           "EVP_CipherInit_ex(NULL,key,iv)",
                                           "EVP_CIPHER_CTX_ctrl(SET_IVLEN)">>)))

\* The GCM branch of op after the first init call came to r1.
op_gcm_ivlen(self, key, iv, enc, r1) ==
  op_step(r1, InitCalls \o <<"EVP_CipherInit_ex(alg,NULL,NULL)">>,
          op_gcm_key(self, key, iv, enc,
                     EVP_CIPHER_CTX_ctrl(r1.ctx, "EVP_CTRL_GCM_SET_IVLEN", iv.len, NoTag)))

\* The checks of op with the direction looked at before the key length.
op_stage_enc_first(self, key, iv, enc) ==
  IF ~check(PyBool(enc \in {0, 1})) THEN "enc"
  ELSE IF ~check(PyBool(key.len = len_key(self))) THEN "key"
  ELSE IF ~self.gcm /\ ~check(PyBool(iv.len = len_IV(self))) THEN "iv"
  ELSE "none"

\* The checks op makes before it touches the context, in its order: the first
\* that raises, or "none".
op_stage(self, key, iv, enc) ==
  IF ~check(PyBool(key.len = len_key(self))) THEN "key"
  ELSE IF ~check(PyBool(enc \in {0, 1})) THEN "enc"
  ELSE IF ~self.gcm /\ ~check(PyBool(iv.len = len_IV(self))) THEN "iv"
  ELSE "none"

\* Cipher.op(key, iv, enc)
op(self, key, iv, enc) ==
  IF op_stage(self, key, iv, enc) # "none" THEN op_raise(op_stage(self, key, iv, enc))
  ELSE IF ~self.gcm
  THEN op_return(self,
                 EVP_CipherInit_ex(CipherOperation_init.ctx, self.alg, key, iv, enc),
                 InitCalls \o <<"EVP_CipherInit_ex(alg,key,iv)">>)
  ELSE op_gcm_ivlen(self, key, iv, enc,
                    EVP_CipherInit_ex(CipherOperation_init.ctx, self.alg, NULLARG, NULLARG, enc))

\* update_associated after EVP_CipherUpdate came to r.
update_associated_ret(self, r) ==
  Res(check(CInt(r.ret)), <<>>, NoTag, [self EXCEPT !.ctx = r.ctx],
      <<"EVP_CipherUpdate">>, "none", IF r.nullwrite THEN "nullwrite" ELSE "none")

\* CipherOperation.update_associated(data)
update_associated(self, data) ==
  update_associated_ret(self, EVP_CipherUpdate(self.ctx, TRUE, data))

\* update returning the whole output buffer, not the outl[0] bytes written.
update_ret_whole_buffer(self, alloc_len, r) ==
  Res(check(CInt(r.ret)),
      r.out \o [i \in 1 .. (alloc_len - Len(r.out)) |-> 0], NoTag,
      [self EXCEPT !.ctx = r.ctx], <<"EVP_CipherUpdate">>, "none",
      IF r.wrote > alloc_len THEN "overflow" ELSE "none")

\* update after EVP_CipherUpdate came to r, with a buffer of alloc_len bytes.
update_ret(self, alloc_len, r) ==
  Res(check(CInt(r.ret)), IF check(CInt(r.ret)) THEN r.out ELSE <<>>, NoTag,
      [self EXCEPT !.ctx = r.ctx], <<"EVP_CipherUpdate">>, "none",
      IF r.wrote > alloc_len THEN "overflow" ELSE "none")

\* CipherOperation.update(data)
update(self, data) ==
  update_ret(self, Len(data) + len_block(self.cipher) - 1,
             EVP_CipherUpdate(self.ctx, FALSE, data))

\* finalize returning the whole output buffer, whatever outl[0] says.
finalize_ret_whole_buffer(self, alloc_len, r) ==
  Res(check(CInt(r.ret)),
      IF check(CInt(r.ret)) THEN r.out \o [i \in 1 .. (alloc_len - Len(r.out)) |-> 0]
      ELSE <<>>,
      NoTag, [self EXCEPT !.ctx = r.ctx], <<"EVP_CipherFinal_ex">>, "none",
      IF r.wrote > alloc_len THEN "overflow" ELSE "none")

\* finalize without the _check of the primitive's return value.
finalize_ret_unchecked(self, alloc_len, r) ==
  Res(TRUE, r.out, NoTag, [self EXCEPT !.ctx = r.ctx], <<"EVP_CipherFinal_ex">>, "none",
      "none")

\* finalize after EVP_CipherFinal_ex came to r, with a buffer of alloc_len bytes.
finalize_ret(self, alloc_len, r) ==
  Res(check(CInt(r.ret)), IF check(CInt(r.ret)) THEN r.out ELSE <<>>, NoTag,
      [self EXCEPT !.ctx = r.ctx], <<"EVP_CipherFinal_ex">>, "none",
      IF r.wrote > alloc_len THEN "overflow" ELSE "none")

\* CipherOperation.finalize()
finalize(self) == finalize_ret(self, len_block(self.cipher), EVP_CipherFinal_ex(self.ctx))

\* get_tag without the _check of the control call's return value: the buffer
\* is returned as the call left it.
get_tag_ret_unchecked(self, tag_len, ret) ==
  Res(TRUE, <<>>, [mac |-> ret.out.mac, len |-> tag_len], [self EXCEPT !.ctx = ret.ctx],
      <<"EVP_CIPHER_CTX_ctrl(GET_TAG)">>, "none", "none")

\* get_tag after the control call came to ret.
get_tag_ret(self, tag_len, ret) ==
  Res(check(CInt(ret.ret)), <<>>,
      IF check(CInt(ret.ret)) THEN [mac |-> ret.out.mac, len |-> tag_len] ELSE NoTag,
      [self EXCEPT !.ctx = ret.ctx], <<"EVP_CIPHER_CTX_ctrl(GET_TAG)">>, "none", "none")

\* CipherOperation.get_tag(tag_len)
get_tag(self, tag_len) ==
  get_tag_ret(self, tag_len,
              EVP_CIPHER_CTX_ctrl(self.ctx, "EVP_CTRL_GCM_GET_TAG", tag_len, NoTag))

\* set_tag after the control call came to r.
set_tag_ret(self, r) ==
  Res(check(CInt(r.ret)), <<>>, NoTag, [self EXCEPT !.ctx = r.ctx],
      <<"EVP_CIPHER_CTX_ctrl(SET_TAG)">>, "none", "none")

\* CipherOperation.set_tag(tag)
set_tag(self, tag) ==
  set_tag_ret(self, EVP_CIPHER_CTX_ctrl(self.ctx, "EVP_CTRL_GCM_SET_TAG", tag.len, tag))

\* CipherOperation.__del__ where EVP_CIPHER_CTX_cleanup returns cleanup_ret:
\* the primitive calls made; EVP_CIPHER_CTX_free comes after the _check.
del(self, cleanup_ret) ==
  IF check(CInt(cleanup_ret))
  THEN Res(TRUE, <<>>, NoTag, self, <<"EVP_CIPHER_CTX_cleanup", "EVP_CIPHER_CTX_free">>,
           "none", "none")
  ELSE Res(FALSE, <<>>, NoTag, self, <<"EVP_CIPHER_CTX_cleanup">>, "none", "none")

\* A step of a one-shot operation: after prev, which returned, the call that
\* came to r; the primitive calls add up.
AndThen(prev, r) == [r EXCEPT !.calls = prev.calls \o r.calls]

\* The same, for a call whose own return value is dropped: the value in hand
\* (prev.out) is kept, unless the call raises.
AndThenKeep(prev, r) ==
  [r EXCEPT !.calls = prev.calls \o r.calls, !.out = IF r.ok THEN prev.out ELSE <<>>]

\* Whether a one-shot operation goes on after the step that came to r.
GoesOn(r) == r.ok /\ r.ub = "none"

\* quick_gcm_dec: "if assoc: dec.update_associated(assoc)".
quick_dec_assoc(dec, assoc) ==
  IF GoesOn(dec) /\ Len(assoc) > 0 THEN AndThen(dec, update_associated(dec.self, assoc))
  ELSE dec

\* quick_gcm_dec: "plain = dec.update(cip)".
quick_dec_update(a, cip) == IF GoesOn(a) THEN AndThen(a, update(a.self, cip)) ELSE a

\* quick_gcm_dec: "dec.set_tag(tag)".
quick_dec_set_tag(plain, tag) ==
  IF GoesOn(plain) THEN AndThenKeep(plain, set_tag(plain.self, tag)) ELSE plain

\* quick_gcm_dec returning plain without the finalize call.
quick_dec_no_finalize(t) == t

\* quick_gcm_dec: "dec.finalize(); return plain".
quick_dec_finalize(t) == IF GoesOn(t) THEN AndThenKeep(t, finalize(t.self)) ELSE t

\* Cipher.quick_gcm_dec(key, iv, cip, tag, assoc): out is the plaintext it
\* returns; self is the local session dec it leaves behind.
quick_gcm_dec(self, key, iv, cip, tag, assoc) ==
  quick_dec_finalize(
    quick_dec_set_tag(
      quick_dec_update(quick_dec_assoc(op(self, key, iv, 0), assoc), cip), tag))

\* The error of a name that is bound nowhere.
NameError == "NameError"

\* quick_gcm_enc: "if assoc: dec.update_associated(assoc)"; no dec is bound
\* in the function or in the module.
quick_enc_assoc(enc, assoc) ==
  IF GoesOn(enc) /\ Len(assoc) > 0
  THEN [Res(FALSE, <<>>, NoTag, enc.self, enc.calls, "none", "none") EXCEPT !.err = NameError]
  ELSE enc

\* quick_gcm_enc: "ciphertext = enc.update(msg)".
quick_enc_update(a, msg) == IF GoesOn(a) THEN AndThen(a, update(a.self, msg)) ELSE a

\* quick_gcm_enc: "enc.finalize()".
quick_enc_finalize(c) == IF GoesOn(c) THEN AndThenKeep(c, finalize(c.self)) ELSE c

\* quick_gcm_enc: "tag = enc.get_tag(tagl); return (ciphertext, tag)".
quick_enc_get_tag(f, tagl) == IF GoesOn(f) THEN AndThenKeep(f, get_tag(f.self, tagl)) ELSE f

\* Cipher.quick_gcm_enc(key, iv, msg, assoc, tagl): out and tag are the pair
\* it returns; self is the local session enc it leaves behind.
quick_gcm_enc(self, key, iv, msg, assoc, tagl) ==
  quick_enc_get_tag(
    quick_enc_finalize(
      quick_enc_update(quick_enc_assoc(op(self, key, iv, 1), assoc), msg)), tagl)

\* ------------------------------------------------------------------ inputs
\* Keys: two of the length AES-128 takes, one of another length.
Key1 == [len |-> 16, id |-> 1, null |-> FALSE]
Key2 == [len |-> 16, id |-> 2, null |-> FALSE]
KeyLong == [len |-> 24, id |-> 1, null |-> FALSE]
\* The keys the sessions of Spec are begun with (tags made under Key2 appear
\* among the tags a caller may hold).
Keys == {Key1, KeyLong}
\* IVs: two of 16 bytes and the empty one.
IVs == {[len |-> 16, id |-> 1, null |-> FALSE], [len |-> 16, id |-> 2, null |-> FALSE],
        [len |-> 0, id |-> 0, null |-> FALSE]}
\* Directions: decrypt, encrypt, and a value that is neither.
Directions == {0, 1, 2}
Chunks == SeqsUpTo(Byte, MaxChunk)
\* get_tag's default tag_len.
DefaultTagLen == 16
TagLens == {4, DefaultTagLen, 17}

\* A byte sequence that differs from s in one byte.
Flip(s) == IF Len(s) = 0 THEN <<1>> ELSE [s EXCEPT ![1] = Mod(s[1] + 1)]

\* The tags a caller may hold for (key, iv, aad, ciphertext): the right one
\* in two lengths and in two lengths the primitive refuses, and tags made
\* over another key, other associated data or another ciphertext.
TagsFor(key, iv, aad, ct) ==
  {[mac |-> <<key.id, iv, aad, ct>>, len |-> n] : n \in TagLens}
  \cup {[mac |-> m, len |-> DefaultTagLen] :
          m \in {<<3 - key.id, iv, aad, ct>>, <<key.id, iv, Flip(aad), ct>>,
                 <<key.id, iv, aad, Flip(ct)>>}}

\* ------------------------------------------------------------------- state
VARIABLES
  sess,     \* the session objects: status, object, context memory, history, last call
  begun,    \* the outcome of the latest Cipher.op call
  crashed,  \* the process has died of undefined behaviour
  rt,       \* the round trip of test_aes_enc / test_gcm_dec: its sessions and buffers
  duo       \* one Cipher object, the contexts allocated, and two sessions made from it

vars == <<sess, begun, crashed, rt, duo>>

Sessions == {1}

NoArg == [cipher |-> NoneCipher, key |-> NULLARG, iv |-> NULLARG, enc |-> 0,
          data |-> <<>>, assoc |-> <<>>, tag |-> NoTag, tag_len |-> 0]
\* What has happened to a session object so far (failed: an update or a
\* finalize on it has raised).
NoHist == [fin_called |-> FALSE, fin_ok |-> FALSE, updated |-> FALSE, fed |-> 0,
           absorbed |-> 0, tag_set |-> NoTag, failed |-> FALSE]
NoBegun == [stage |-> "never", err |-> ""]
NoLast == [op |-> "none", ok |-> TRUE, err |-> "", out |-> <<>>, tag |-> NoTag,
           calls |-> <<>>, stage |-> "none", arg |-> NoArg, pre |-> NoHist,
           prev |-> NoBegun, ub |-> "none"]
NoSession == [status |-> "none", obj |-> CipherOperation_init, mem |-> "none",
              hist |-> NoHist, last |-> NoLast]
\* The round trip before it starts. ref: the message; off: how much of it the
\* encrypt session was fed; enc, dec: the two session objects.
NoRoundTrip == [phase |-> "idle", cipher |-> NoneCipher, key |-> NULLARG, iv |-> NULLARG,
                ref |-> <<>>, off |-> 0, enc |-> CipherOperation_init,
                dec |-> CipherOperation_init, ciphertext |-> <<>>, tag |-> NoTag,
                plaintext |-> <<>>, ok |-> TRUE]

\* The addresses EVP_CIPHER_CTX_new may return, and the session slots.
Addrs == {1, 2}
Slots == {1, 2}
\* What a session of duo is asked to do: begin with key and enc, absorb aad,
\* update with data, and (decrypt) install tag.
NoScript == [key |-> NULLARG, enc |-> 0, aad |-> <<>>, data |-> <<>>, tag |-> NoTag]
\* A session of duo. pc: the calls made so far; addr: its context; outs: what
\* its calls returned, in order.
NoSlot == [pc |-> 0, script |-> NoScript, addr |-> 0, outs |-> <<>>]
\* name, made: the arguments and the result of Cipher(...); aes: the Cipher
\* object now; live, heap: the contexts allocated and their contents.
NoDuo == [phase |-> "unresolved", name |-> NoName, made |-> NoneCipher, aes |-> NoneCipher,
          err |-> "", live |-> {}, heap |-> [a \in Addrs |-> EVP_CIPHER_CTX_new],
          slot |-> [i \in Slots |-> NoSlot]]

\* The record of a call: its name, its outcome r, its arguments, the history
\* and the latest begin before it.
Last(name, r, arg, pre, prev) ==
  [op |-> name, ok |-> r.ok, err |-> r.err, out |-> r.out, tag |-> r.tag,
   calls |-> r.calls, stage |-> r.stage, arg |-> arg, pre |-> pre, prev |-> prev,
   ub |-> r.ub]

\* The outcomes of a call that ran into undefined behaviour: a write through
\* a null pointer kills the process; a write past the end of the output
\* buffer may go unnoticed or kill it.
Outcomes(ub) ==
  IF ub = "nullwrite" THEN {"crash"}
  ELSE IF ub = "overflow" THEN {"benign", "crash"}
  ELSE {"benign"}

\* The payload bytes a session may be fed in total.
FeedCap(obj) == IF len_block(obj.cipher) > 1 THEN MaxTotal ELSE MaxStream

Init ==
  /\ sess = [s \in Sessions |-> NoSession]
  /\ begun = NoBegun
  /\ crashed = FALSE
  /\ rt = NoRoundTrip
  /\ duo = NoDuo

\* A call on a live session s that comes to r and leaves history h.
Call(s, name, r, arg, h) ==
  \E o \in Outcomes(r.ub) :
    IF o = "crash"
    THEN crashed' = TRUE /\ UNCHANGED <<sess, begun, rt, duo>>
    ELSE /\ sess' = [sess EXCEPT ![s].obj = r.self, ![s].hist = h,
                                 ![s].last = Last(name, r, arg, sess[s].hist, NoBegun)]
         /\ UNCHANGED <<begun, crashed, rt, duo>>

\* aes.op(key, iv, enc): a session object is made; it is returned (live) or,
\* when op raises, left unreferenced (garbage).
Begin(s) ==
  /\ ~crashed
  /\ sess[s].status \in {"none", "deleted"}
  /\ \E self \in Ciphers, key \in Keys, iv \in IVs, enc \in Directions :
       LET r == op(self, key, iv, enc)
           arg == [NoArg EXCEPT !.cipher = self, !.key = key, !.iv = iv, !.enc = enc]
       IN /\ sess' = [sess EXCEPT ![s] =
                        [status |-> IF r.ok THEN "live" ELSE "garbage", obj |-> r.self,
                         mem |-> "allocated", hist |-> NoHist,
                         last |-> Last("op", r, arg, NoHist, begun)]]
          /\ begun' = [stage |-> r.stage, err |-> r.err]
  /\ UNCHANGED <<crashed, rt, duo>>

\* c_op.update_associated(data)
Absorb(s) ==
  /\ ~crashed
  /\ sess[s].status = "live"
  /\ \E data \in Chunks :
       /\ sess[s].hist.absorbed + Len(data) <= MaxAad
       /\ Call(s, "update_associated", update_associated(sess[s].obj, data),
               [NoArg EXCEPT !.data = data],
               [sess[s].hist EXCEPT !.absorbed = @ + Len(data)])

\* c_op.update(data)
Update(s) ==
  /\ ~crashed
  /\ sess[s].status = "live"
  /\ \E data \in Chunks :
       /\ sess[s].hist.fed + Len(data) <= FeedCap(sess[s].obj)
       /\ Call(s, "update", update(sess[s].obj, data), [NoArg EXCEPT !.data = data],
               [sess[s].hist EXCEPT !.fed = @ + Len(data), !.updated = TRUE,
                                    !.failed = @ \/ ~update(sess[s].obj, data).ok])

\* c_op.finalize()
Finalize(s) ==
  /\ ~crashed
  /\ sess[s].status = "live"
  /\ LET r == finalize(sess[s].obj)
     IN Call(s, "finalize", r, NoArg,
             [sess[s].hist EXCEPT !.fin_called = TRUE, !.fin_ok = @ \/ r.ok,
                                  !.failed = @ \/ ~r.ok])

\* c_op.get_tag(tag_len)
GetTag(s) ==
  /\ ~crashed
  /\ sess[s].status = "live"
  /\ \E tag_len \in TagLens :
       Call(s, "get_tag", get_tag(sess[s].obj, tag_len), [NoArg EXCEPT !.tag_len = tag_len],
            sess[s].hist)

\* c_op.set_tag(tag)
SetTag(s) ==
  /\ ~crashed
  /\ sess[s].status = "live"
  /\ LET c == sess[s].obj.ctx
     IN \E tag \in TagsFor(c.key, c.iv, c.aad, c.data) :
          LET r == set_tag(sess[s].obj, tag)
          IN Call(s, "set_tag", r, [NoArg EXCEPT !.tag = tag],
                  [sess[s].hist EXCEPT !.tag_set = IF r.ok THEN tag ELSE @])

\* What __del__'s record keeps of the history: whether finalize was called
\* and whether it succeeded.
DropHist(h) == [NoHist EXCEPT !.fin_called = h.fin_called, !.fin_ok = h.fin_ok]

\* The session object is collected: CipherOperation.__del__ runs, once.
Del(s) ==
  /\ ~crashed
  /\ sess[s].status \in {"live", "garbage"}
  /\ \E cleanup_ret \in {0, 1} :
       LET r == del(sess[s].obj, cleanup_ret)
       IN sess' = [sess EXCEPT ![s] =
                     [status |-> "deleted", obj |-> CipherOperation_init,
                      mem |-> IF "EVP_CIPHER_CTX_free" \in {r.calls[i] : i \in DOMAIN r.calls}
                              THEN "freed" ELSE "leaked",
                      hist |-> NoHist,
                      last |-> Last("__del__", [r EXCEPT !.self = CipherOperation_init],
                                    NoArg, DropHist(sess[s].hist), NoBegun)]]
  /\ UNCHANGED <<begun, crashed, rt, duo>>

\* aes.quick_gcm_dec(key, iv, cip, tag, assoc): the local session it makes
\* is unreferenced when it returns or raises.
QuickDec(s) ==
  /\ ~crashed
  /\ sess[s].status \in {"none", "deleted"}
  /\ \E self \in Ciphers, key \in Keys, iv \in IVs, cip \in Chunks,
        assoc \in SeqsUpTo(Byte, MaxAad) :
       \E tag \in TagsFor(key, iv, assoc, cip) :
         LET r == quick_gcm_dec(self, key, iv, cip, tag, assoc)
             arg == [NoArg EXCEPT !.cipher = self, !.key = key, !.iv = iv, !.data = cip,
                                  !.tag = tag, !.assoc = assoc]
         IN \E o \in Outcomes(r.ub) :
              IF o = "crash" THEN crashed' = TRUE /\ UNCHANGED <<sess, begun, rt, duo>>
              ELSE /\ sess' = [sess EXCEPT ![s] =
                                 [status |-> "garbage", obj |-> r.self, mem |-> "allocated",
                                  hist |-> NoHist,
                                  last |-> Last("quick_gcm_dec", r, arg, NoHist, NoBegun)]]
                   /\ begun' = [stage |-> r.stage, err |-> IF r.stage = "none" THEN "" ELSE r.err]
                   /\ UNCHANGED <<crashed, rt, duo>>

\* aes.quick_gcm_enc(key, iv, msg, assoc, tagl): the local session it makes
\* is unreferenced when it returns or raises.
QuickEnc(s) ==
  /\ ~crashed
  /\ sess[s].status \in {"none", "deleted"}
  /\ \E self \in Ciphers, key \in Keys, iv \in IVs, msg \in Chunks,
        assoc \in SeqsUpTo(Byte, MaxAad), tagl \in TagLens :
       LET r == quick_gcm_enc(self, key, iv, msg, assoc, tagl)
           arg == [NoArg EXCEPT !.cipher = self, !.key = key, !.iv = iv, !.data = msg,
                                !.assoc = assoc, !.tag_len = tagl]
       IN \E o \in Outcomes(r.ub) :
            IF o = "crash" THEN crashed' = TRUE /\ UNCHANGED <<sess, begun, rt, duo>>
            ELSE /\ sess' = [sess EXCEPT ![s] =
                               [status |-> "garbage", obj |-> r.self, mem |-> "allocated",
                                hist |-> NoHist,
                                last |-> Last("quick_gcm_enc", r, arg, NoHist, NoBegun)]]
                 /\ begun' = [stage |-> r.stage, err |-> IF r.stage = "none" THEN "" ELSE r.err]
                 /\ UNCHANGED <<crashed, rt, duo>>

Next ==
  \E s \in Sessions :
    \/ Begin(s)
    \/ Absorb(s)
    \/ Update(s)
    \/ Finalize(s)
    \/ GetTag(s)
    \/ SetTag(s)
    \/ Del(s)
    \/ QuickDec(s)
    \/ QuickEnc(s)

Spec == Init /\ [][Next]_vars

\* ------------------------------------------------------------- round trip
\* test_aes_enc, test_aes_ctr, test_gcm_dec for any message and any split of
\* it into update chunks on the encrypt side.
MaxMsg == 4
Messages == SeqsUpTo(Byte, MaxMsg)
RoundTripKeys == {Key1, Key2}
RoundTripIVs == {iv \in IVs : iv.len = 16}

\* A step of the round trip that came to r: the process dies, or the step
\* raised and the round trip is over, or it goes on with next.
RoundTripStep(r, next) ==
  \E o \in Outcomes(r.ub) :
    IF o = "crash" THEN crashed' = TRUE /\ UNCHANGED rt
    ELSE /\ rt' = IF r.ok THEN next ELSE [rt EXCEPT !.phase = "done", !.ok = FALSE]
         /\ UNCHANGED crashed

\* enc = aes.enc(key, iv)
RTBegin ==
  /\ ~crashed /\ rt.phase = "idle"
  /\ \E self \in Ciphers, key \in RoundTripKeys, iv \in RoundTripIVs, ref \in Messages :
       LET r == op(self, key, iv, 1)
       IN RoundTripStep(r, [rt EXCEPT !.phase = "enc", !.cipher = self, !.key = key,
                                      !.iv = iv, !.ref = ref, !.enc = r.self])
  /\ UNCHANGED <<sess, begun, duo>>

\* ciphertext += enc.update(chunk), for the next chunk of the message
RTEncUpdate ==
  /\ ~crashed /\ rt.phase = "enc"
  /\ \E n \in 0 .. MaxChunk :
       /\ rt.off + n <= Len(rt.ref)
       /\ LET r == update(rt.enc, SubSeq(rt.ref, rt.off + 1, rt.off + n))
          IN RoundTripStep(r, [rt EXCEPT !.off = @ + n, !.enc = r.self,
                                         !.ciphertext = @ \o r.out])
  /\ UNCHANGED <<sess, begun, duo>>

\* The tag the test takes from a finalized encrypt session (GCM only).
RTGetTag(self, f) == IF self.gcm /\ f.ok THEN AndThenKeep(f, get_tag(f.self, DefaultTagLen)) ELSE f

\* ciphertext += enc.finalize(); tag = enc.get_tag()
RTEncFinalize ==
  /\ ~crashed /\ rt.phase = "enc" /\ rt.off = Len(rt.ref)
  /\ LET r == RTGetTag(rt.cipher, finalize(rt.enc))
     IN RoundTripStep(r, [rt EXCEPT !.phase = "dec", !.enc = r.self,
                                    !.ciphertext = @ \o r.out, !.tag = r.tag])
  /\ UNCHANGED <<sess, begun, duo>>

\* dec = aes.dec(key, iv)
RTDecBegin ==
  /\ ~crashed /\ rt.phase = "dec"
  /\ LET r == op(rt.cipher, rt.key, rt.iv, 0)
     IN RoundTripStep(r, [rt EXCEPT !.phase = "decfeed", !.dec = r.self])
  /\ UNCHANGED <<sess, begun, duo>>

\* The tag the test installs before it finalizes the decrypt session (GCM only).
RTSetTag(self, u, tag) == IF self.gcm /\ u.ok THEN AndThenKeep(u, set_tag(u.self, tag)) ELSE u

\* plaintext = dec.update(ciphertext); dec.set_tag(tag)
RTDecUpdate ==
  /\ ~crashed /\ rt.phase = "decfeed"
  /\ LET r == RTSetTag(rt.cipher, update(rt.dec, rt.ciphertext), rt.tag)
     IN RoundTripStep(r, [rt EXCEPT !.phase = "decfin", !.dec = r.self,
                                    !.plaintext = r.out])
  /\ UNCHANGED <<sess, begun, duo>>

\* plaintext += dec.finalize()
RTDecFinalize ==
  /\ ~crashed /\ rt.phase = "decfin"
  /\ LET r == finalize(rt.dec)
     IN RoundTripStep(r, [rt EXCEPT !.phase = "done", !.dec = r.self,
                                    !.plaintext = @ \o r.out])
  /\ UNCHANGED <<sess, begun, duo>>

NextRoundTrip ==
  \/ RTBegin
  \/ RTEncUpdate
  \/ RTEncFinalize
  \/ RTDecBegin
  \/ RTDecUpdate
  \/ RTDecFinalize

SpecRoundTrip == Init /\ [][NextRoundTrip]_vars

\* ------------------------------------------- one descriptor, two sessions
\* The names Cipher(...) is called with: three the library knows, one it does
\* not, and two that ask for CCM, one known to the library and one not.
Names ==
  {Name("AES-128-CBC", FALSE, FALSE, EVP_aes_128_cbc),
   Name("AES-128-CTR", FALSE, FALSE, EVP_aes_128_ctr),
   Name("aes-128-gcm", TRUE, FALSE, EVP_aes_128_gcm),
   Name("AES-128-XXF", FALSE, FALSE, NoCipher),
   Name("aes-128-ccm", FALSE, TRUE, EVP_aes_128_ccm),
   Name("AES-128-CCM", FALSE, TRUE, NoCipher)}

DuoIV == [len |-> 16, id |-> 1, null |-> FALSE]
DuoAads == {<<>>, <<1>>}
DuoDatas == {<<1>>, <<2, 1>>}
\* The tags a decrypt session of duo installs: the right one and one over
\* another ciphertext.
DuoTags(key, aad, data) ==
  {[mac |-> <<key.id, DuoIV, aad, d>>, len |-> DefaultTagLen] : d \in {data, Flip(data)}}
Scripts ==
  {[key |-> k, enc |-> 1, aad |-> a, data |-> d, tag |-> NoTag] :
     k \in RoundTripKeys, a \in DuoAads, d \in DuoDatas}
  \cup UNION {{[key |-> k, enc |-> 0, aad |-> a, data |-> d, tag |-> t] :
                 t \in DuoTags(k, a, d)} :
                k \in RoundTripKeys, a \in DuoAads, d \in DuoDatas}
\* The calls of a script after the begin.
LastCall == 5

\* aes = Cipher(name)
DuoResolve ==
  /\ ~crashed /\ duo.phase = "unresolved"
  /\ \E name \in Names :
       duo' = [duo EXCEPT !.phase = IF Cipher_init(name, NoCipher).ok THEN "made" ELSE "raised",
                          !.name = name,
                          !.made = Cipher_init(name, NoCipher).self,
                          !.aes = Cipher_init(name, NoCipher).self,
                          !.err = Cipher_init(name, NoCipher).err]
  /\ UNCHANGED <<sess, begun, crashed, rt>>

\* aes = Cipher.aes_128_gcm()
DuoFixed ==
  /\ ~crashed /\ duo.phase = "unresolved"
  /\ duo' = [duo EXCEPT !.phase = "made", !.made = aes_128_gcm.self, !.aes = aes_128_gcm.self]
  /\ UNCHANGED <<sess, begun, crashed, rt>>

\* One context for all sessions, whatever is allocated.
AllocShared(live) == {1}

\* The addresses EVP_CIPHER_CTX_new may return: any that is not allocated.
Alloc(live) == Addrs \ live

\* A call that clears the gcm flag of the Cipher object it works with.
DescriptorClearsGcm(aes, r) == [aes EXCEPT !.gcm = FALSE]

\* The Cipher object after a call on it or on one of its sessions came to r:
\* no method assigns to self.alg or self.gcm.
DescriptorAfter(aes, r) == aes

\* What the caller sees of a call.
Out(r) == [ok |-> r.ok, out |-> r.out, tag |-> r.tag]

\* The n-th call of a script, on the session object self.
StepCall(sc, n, self) ==
  IF n = 2 THEN update_associated(self, sc.aad)
  ELSE IF n = 3 THEN update(self, sc.data)
  ELSE IF n = 4 THEN (IF sc.enc = 1 THEN finalize(self) ELSE set_tag(self, sc.tag))
  ELSE IF sc.enc = 1 THEN get_tag(self, DefaultTagLen) ELSE finalize(self)

\* Session i after a call that came to r: the context at a holds what the
\* call left in it.
DuoAfter(i, a, sc, pc, r) ==
  \E o \in Outcomes(r.ub) :
    IF o = "crash" THEN crashed' = TRUE /\ UNCHANGED duo
    ELSE /\ duo' = [duo EXCEPT !.aes = DescriptorAfter(@, r),
                               !.live = @ \cup {a},
                               !.heap[a] = r.self.ctx,
                               !.slot[i] = [pc |-> pc, script |-> sc, addr |-> a,
                                            outs |-> Append(@.outs, Out(r))]]
         /\ UNCHANGED crashed

\* Where a script stands after its begin came to r: a begin that raised
\* leaves nothing to call.
AfterBegin(r) == IF r.ok THEN 1 ELSE LastCall

\* session i = aes.op(key, iv, enc)
DuoBegin(i) ==
  /\ ~crashed /\ duo.phase = "made" /\ duo.slot[i].pc = 0
  /\ \E sc \in Scripts, a \in Alloc(duo.live) :
       DuoAfter(i, a, sc, AfterBegin(op(duo.aes, sc.key, DuoIV, sc.enc)),
                op(duo.aes, sc.key, DuoIV, sc.enc))
  /\ UNCHANGED <<sess, begun, rt>>

\* The session object of slot i: its context and the Cipher object it refers to.
DuoSelf(i) == [ctx |-> duo.heap[duo.slot[i].addr], cipher |-> duo.aes]

\* The next call of session i
DuoStep(i) ==
  /\ ~crashed /\ duo.slot[i].pc \in 1 .. (LastCall - 1)
  /\ DuoAfter(i, duo.slot[i].addr, duo.slot[i].script, duo.slot[i].pc + 1,
              StepCall(duo.slot[i].script, duo.slot[i].pc + 1, DuoSelf(i)))
  /\ UNCHANGED <<sess, begun, rt>>

\* session i is dropped: __del__ cleans up and frees its context
DuoDel(i) ==
  /\ ~crashed /\ duo.slot[i].pc = LastCall
  /\ duo' = [duo EXCEPT !.live = IF del(DuoSelf(i), 1).ok THEN @ \ {duo.slot[i].addr} ELSE @,
                        !.heap[duo.slot[i].addr] = EVP_CIPHER_CTX_new,
                        !.slot[i] = NoSlot]
  /\ UNCHANGED <<sess, begun, crashed, rt>>

NextDuo ==
  \/ DuoResolve
  \/ DuoFixed
  \/ \E i \in Slots : DuoBegin(i)
  \/ \E i \in Slots : DuoStep(i)
  \/ \E i \in Slots : DuoDel(i)

SpecDuo == Init /\ [][NextDuo]_vars

\* ------------------------------------------------------------------ claims
\* What an encrypt session of cipher self under (key, iv) comes to when it
\* absorbs aad, is fed pt, is finalized and asked for a tag of tag_len bytes:
\* the steps of the wrapper, one after the other.
EncTagStep(f, tag_len) == IF f.ok THEN AndThenKeep(f, get_tag(f.self, tag_len)) ELSE f
EncFinalStep(u) == IF u.ok THEN AndThenKeep(u, finalize(u.self)) ELSE u
EncUpdateStep(a, pt) == IF a.ok THEN AndThen(a, update(a.self, pt)) ELSE a
EncAbsorbStep(b, aad) == IF b.ok THEN AndThen(b, update_associated(b.self, aad)) ELSE b
EncryptSession(self, key, iv, aad, pt, tag_len) ==
  EncTagStep(EncFinalStep(EncUpdateStep(EncAbsorbStep(op(self, key, iv, 1), aad), pt)),
             tag_len)

\* Whether tag is the tag, and ct the ciphertext, that an encrypt session
\* under (key, iv) over aad produces for the plaintext pt.
IsEncryptionOf(e, ct, tag) == e.ok /\ e.out = ct /\ e.tag = tag
Authentic(self, key, iv, aad, pt, ct, tag) ==
  IsEncryptionOf(EncryptSession(self, key, iv, aad, pt, tag.len), ct, tag)

\* The plaintext a GCM context has made of the ciphertext it was fed.
PlainOf(ctx) == aes_ctr_cipher(ctx.key, ctx.iv, 0, 0, ctx.data)

\* C1: finalize on an authenticated decrypt session returns only if a tag was
\* installed with set_tag and that tag is the one an encrypt session produces
\* over the same key, IV, associated data and ciphertext; with any other tag,
\* associated data or ciphertext it raises.
C1_FinalizeVerifiesTag ==
  \A s \in DOMAIN sess :
    (/\ sess[s].status = "live"
     /\ sess[s].last.op = "finalize"
     /\ sess[s].last.ok
     /\ sess[s].obj.cipher.gcm
     /\ sess[s].obj.ctx.encrypt = 0)
    => /\ sess[s].hist.tag_set # NoTag
       /\ Authentic(sess[s].obj.cipher, sess[s].obj.ctx.key, sess[s].obj.ctx.iv,
                    sess[s].obj.ctx.aad, PlainOf(sess[s].obj.ctx), sess[s].obj.ctx.data,
                    sess[s].hist.tag_set)

\* C1 witness: a finalize of an authenticated decrypt session that has
\* absorbed associated data and processed ciphertext returns.
C1_Witness ==
  \E s \in DOMAIN sess :
    /\ sess[s].status = "live"
    /\ sess[s].last.op = "finalize" /\ sess[s].last.ok
    /\ sess[s].obj.cipher.gcm /\ sess[s].obj.ctx.encrypt = 0
    /\ Len(sess[s].obj.ctx.aad) > 0 /\ Len(sess[s].obj.ctx.data) > 0

\* C2: quick_gcm_dec returns a plaintext only when the tag it was given is the
\* tag, and the ciphertext the ciphertext, of an encryption of that plaintext
\* under the same key, IV and associated data; otherwise it raises and
\* returns nothing.
C2_QuickDecFailClosed ==
  \A s \in DOMAIN sess :
    sess[s].last.op = "quick_gcm_dec"
    => /\ sess[s].last.ok
          => /\ sess[s].last.arg.cipher.gcm
             /\ Authentic(sess[s].last.arg.cipher, sess[s].last.arg.key, sess[s].last.arg.iv,
                          sess[s].last.arg.assoc, sess[s].last.out, sess[s].last.arg.data,
                          sess[s].last.arg.tag)
       /\ ~sess[s].last.ok => sess[s].last.out = <<>> /\ sess[s].last.err = CipherException

\* C2 witness: quick_gcm_dec returns a non-empty plaintext that came with
\* associated data.
C2_Witness ==
  \E s \in DOMAIN sess :
    /\ sess[s].last.op = "quick_gcm_dec" /\ sess[s].last.ok
    /\ Len(sess[s].last.out) > 0 /\ Len(sess[s].last.arg.assoc) > 0

\* C3: a message fed to an encrypt session in any split into update chunks,
\* its ciphertext (update outputs, then the finalize output) fed to a decrypt
\* session under the same key and IV: no call raises, and the decrypt
\* session's update and finalize outputs make up the message.
C3_RoundTrip ==
  /\ ~crashed
  /\ rt.phase = "done" => rt.ok /\ rt.plaintext = rt.ref

\* C3 witness: the round trip of a message of more than one block through a
\* block cipher, fed in more than one chunk, is done.
C3_Witness ==
  /\ rt.phase = "done"
  /\ rt.cipher.alg.mode = "CBC"
  /\ Len(rt.ref) = MaxMsg
  /\ Len(rt.ciphertext) > Len(rt.ref)

\* C4: once finalize has been called on a session, whatever it returned, a
\* later update, update_associated or finalize on it raises and returns no
\* output.
C4_TerminalAfterFinalize ==
  \A s \in DOMAIN sess :
    (/\ sess[s].last.op \in {"update", "update_associated", "finalize"}
     /\ sess[s].last.pre.fin_called)
    => ~sess[s].last.ok /\ sess[s].last.out = <<>>

\* C5: update_associated on a session of a cipher that is not authenticated,
\* or on a session that was already given payload with update, raises and
\* makes no call to the primitive.
C5_AbsorbGuard ==
  \A s \in DOMAIN sess :
    (/\ sess[s].last.op = "update_associated"
     /\ (~sess[s].obj.cipher.gcm \/ sess[s].last.pre.updated))
    => ~sess[s].last.ok /\ sess[s].last.calls = <<>>

C7_SetTagGuard ==
  \A s \in DOMAIN sess :
    sess[s].last.op = "set_tag"
    => /\ sess[s].last.ok
          => sess[s].obj.ctx.encrypt = 0 /\ ~sess[s].last.pre.fin_called
       /\ ~sess[s].last.ok => sess[s].hist.tag_set = sess[s].last.pre.tag_set

\* C8: a session object that has been collected has had its context freed,
\* also when the context clean-up reported failure.
C8_ReleasedOnce ==
  \A s \in DOMAIN sess : sess[s].status = "deleted" => sess[s].mem = "freed"

\* Whether the arguments of a begin have a key, or for a cipher that is not
\* authenticated an IV, of the wrong length.
BadLength(arg) ==
  \/ arg.key.len # len_key(arg.cipher)
  \/ ~arg.cipher.gcm /\ arg.iv.len # len_IV(arg.cipher)

\* C9 (as stated): a begin with a key or IV of the wrong length raises before
\* any call to the primitive, the allocation of the context included.
C9_NoPrimitiveCall ==
  \A s \in DOMAIN sess :
    (sess[s].last.op = "op" /\ BadLength(sess[s].last.arg))
    => ~sess[s].last.ok /\ sess[s].last.calls = <<>>

\* C9: a begin with a key or IV of the wrong length raises when the context
\* of the session object has been allocated and initialised and no other
\* call to the primitive (cipher initialisation, control) has been made.
C9_BadLengthOnlyAllocates ==
  \A s \in DOMAIN sess :
    (sess[s].last.op = "op" /\ BadLength(sess[s].last.arg))
    => ~sess[s].last.ok /\ sess[s].last.calls = InitCalls

\* C9 witness: a begin with a good key and a bad IV has raised.
C9_Witness ==
  \E s \in DOMAIN sess :
    /\ sess[s].last.op = "op" /\ ~sess[s].last.ok
    /\ sess[s].last.arg.key.len = len_key(sess[s].last.arg.cipher)
    /\ sess[s].last.arg.enc \in {0, 1}
    /\ ~sess[s].last.arg.cipher.gcm
    /\ sess[s].last.arg.iv.len # len_IV(sess[s].last.arg.cipher)

\* The first precondition of a begin that its arguments violate, in the
\* order key length, direction, IV length.
FirstViolated(arg) ==
  IF arg.key.len # len_key(arg.cipher) THEN "key"
  ELSE IF arg.enc \notin {0, 1} THEN "enc"
  ELSE IF ~arg.cipher.gcm /\ arg.iv.len # len_IV(arg.cipher) THEN "iv"
  ELSE "ok"

C11_QuickEncIsStepByStep ==
  \A s \in DOMAIN sess :
    sess[s].last.op = "quick_gcm_enc"
    => /\ sess[s].last.ok
          = EncryptSession(sess[s].last.arg.cipher, sess[s].last.arg.key, sess[s].last.arg.iv,
                           sess[s].last.arg.assoc, sess[s].last.arg.data,
                           sess[s].last.arg.tag_len).ok
       /\ sess[s].last.ok
          => IsEncryptionOf(
               EncryptSession(sess[s].last.arg.cipher, sess[s].last.arg.key,
                              sess[s].last.arg.iv, sess[s].last.arg.assoc,
                              sess[s].last.arg.data, sess[s].last.arg.tag_len),
               sess[s].last.out, sess[s].last.tag)

\* C12 (as stated): resolving a name that asks for CCM raises the error for
\* the unsupported mode, whether or not the library knows the name.
C12_AlwaysUnsupportedMode ==
  (duo.phase # "unresolved" /\ duo.name.ccm)
  => duo.phase = "raised" /\ duo.err = CCMNotSupported

\* C12: resolving a name that asks for CCM never makes a Cipher object; it
\* raises the error for the unsupported mode when the library knows the name
\* and the error for an unknown cipher when it does not.
C12_CcmNeverResolves ==
  (duo.phase # "unresolved" /\ duo.name.ccm)
  => /\ duo.phase = "raised"
     /\ duo.aes = NoneCipher
     /\ duo.err = IF duo.name.alg # NoCipher THEN CCMNotSupported ELSE UnknownCipher
     /\ \A i \in Slots : duo.slot[i] = NoSlot

\* C12 witness: a CCM name the library knows has been refused.
C12_Witness ==
  /\ duo.phase = "raised"
  /\ duo.name.ccm /\ duo.name.alg # NoCipher
  /\ duo.err = CCMNotSupported

\* C13: two encrypt sessions made from the same Cipher object with the same
\* key and IV and given the same associated data and plaintext have got the
\* same results from the calls they both have made (ciphertext and, for GCM,
\* tag), whatever the other session did in between.
C13_Determinism ==
  \A i, j \in Slots :
    (/\ duo.slot[i].pc >= 1
     /\ duo.slot[i].script.enc = 1
     /\ duo.slot[j].script = duo.slot[i].script
     /\ duo.slot[j].pc = duo.slot[i].pc)
    => duo.slot[j].outs = duo.slot[i].outs

\* C13 witness: two GCM encrypt sessions with the same key, associated data
\* and plaintext, each in a context of its own, have both returned a tag.
C13_Witness ==
  /\ duo.aes.gcm
  /\ duo.slot[1].script.enc = 1
  /\ duo.slot[1].script = duo.slot[2].script
  /\ Len(duo.slot[1].script.aad) > 0
  /\ duo.slot[1].addr # duo.slot[2].addr
  /\ Len(duo.slot[1].outs) = LastCall /\ Len(duo.slot[2].outs) = LastCall
  /\ duo.slot[1].outs[LastCall].ok /\ duo.slot[1].outs[LastCall].tag # NoTag
  /\ Len(duo.slot[1].outs[3].out) > 0

\* C14: on a session of GCM or of a stream cipher (block size 1) an update
\* that returns returns as many bytes as it was given and a finalize that
\* returns returns the empty string, whatever was absorbed and fed before;
\* update_associated returns no output.
C14_StreamLengths ==
  \A s \in DOMAIN sess :
    (sess[s].status = "live" /\ sess[s].last.ok)
    => /\ (sess[s].last.op = "update" /\ len_block(sess[s].obj.cipher) = 1)
          => Len(sess[s].last.out) = Len(sess[s].last.arg.data)
       /\ (sess[s].last.op = "finalize" /\ len_block(sess[s].obj.cipher) = 1)
          => sess[s].last.out = <<>>
       /\ sess[s].last.op = "update_associated" => sess[s].last.out = <<>>

\* C14 witness: a GCM session that absorbed associated data and was fed
\* payload has been finalized.
C14_Witness ==
  \E s \in DOMAIN sess :
    /\ sess[s].status = "live" /\ sess[s].obj.cipher.gcm
    /\ sess[s].last.op = "finalize" /\ sess[s].last.ok
    /\ sess[s].hist.absorbed > 0 /\ sess[s].hist.fed = MaxStream

\* C15: in no update call does the primitive write more than the
\* len(data) + block size - 1 bytes of the output buffer.
C15_BufferSuffices ==
  \A s \in DOMAIN sess : sess[s].last.op = "update" => sess[s].last.ub # "overflow"

\* The primitive calls of a begin on a GCM Cipher object, in the order the
\* claim gives: the context, the cipher with null key and IV, the nonce
\* length, the key and the IV.
GcmBeginCalls ==
  <<"EVP_CIPHER_CTX_new", "EVP_CIPHER_CTX_init", "EVP_CipherInit_ex(alg,NULL,NULL)",
    "EVP_CIPHER_CTX_ctrl(SET_IVLEN)", "EVP_CipherInit_ex(NULL,key,iv)">>
IsPrefix(p, q) == Len(p) <= Len(q) /\ p = SubSeq(q, 1, Len(p))

\* C16: a begin on a GCM Cipher object makes its primitive calls in the order
\* cipher with null key and IV, nonce length, key and IV, and stops at the
\* first that fails; it returns a session only after all three, and then the
\* context has the cipher, the nonce length len(iv), the key and the IV.
C16_GcmBeginOrder ==
  \A s \in DOMAIN sess :
    (sess[s].last.op = "op" /\ sess[s].last.arg.cipher.gcm)
    => /\ IsPrefix(sess[s].last.calls, GcmBeginCalls)
       /\ sess[s].last.ok
          => /\ sess[s].last.calls = GcmBeginCalls
             /\ sess[s].obj.ctx.cipher = sess[s].last.arg.cipher.alg
             /\ sess[s].obj.ctx.ivlen = sess[s].last.arg.iv.len
             /\ sess[s].obj.ctx.key_set /\ sess[s].obj.ctx.iv_set
             /\ sess[s].obj.ctx.key = sess[s].last.arg.key
             /\ sess[s].obj.ctx.iv = sess[s].last.arg.iv
       /\ sess[s].last.stage = "primitive" => Len(sess[s].last.calls) < Len(GcmBeginCalls)

\* C16 witness: a begin on a GCM Cipher object has returned a session.
C16_Witness ==
  \E s \in DOMAIN sess :
    /\ sess[s].last.op = "op" /\ sess[s].last.arg.cipher.gcm
    /\ sess[s].last.ok /\ sess[s].status = "live"
    /\ sess[s].last.calls = GcmBeginCalls

\* C17: once an update or a finalize of a session has raised, every later
\* update, update_associated, finalize, set_tag and get_tag on it raises.
C17_FailureInvalidates ==
  \A s \in DOMAIN sess :
    (/\ sess[s].last.op \in {"update", "update_associated", "finalize", "set_tag", "get_tag"}
     /\ sess[s].last.pre.failed)
    => ~sess[s].last.ok

\* What a session made from aes comes to when it makes the first n calls of
\* the script sc with no other session around: the session object and what
\* the calls returned.
RECURSIVE Alone(_, _, _)
AloneNext(sc, n, p, r) == [self |-> r.self, outs |-> Append(p.outs, Out(r))]
AloneStep(sc, n, p) == AloneNext(sc, n, p, StepCall(sc, n, p.self))
Alone(aes, sc, n) ==
  IF n = 1
  THEN AloneNext(sc, 1, [self |-> CipherOperation_init, outs |-> <<>>],
                 op(aes, sc.key, DuoIV, sc.enc))
  ELSE AloneStep(sc, n, Alone(aes, sc, n - 1))

\* C18: the Cipher object stays as it was made, whatever is called on it and
\* on its sessions; two sessions never have the same context; and in every
\* interleaving of the calls of two sessions each session has got the results,
\* and its context the contents, that it gets when it runs alone.
C18_SessionsIndependent ==
  /\ duo.phase = "made" => duo.aes = duo.made
  /\ \A i \in Slots :
       duo.slot[i].pc >= 1
       => /\ duo.slot[i].addr \in duo.live
          /\ \A j \in Slots \ {i} :
               duo.slot[j].pc >= 1 => duo.slot[j].addr # duo.slot[i].addr
          /\ duo.slot[i].outs
             = Alone(duo.made, duo.slot[i].script, Len(duo.slot[i].outs)).outs
          /\ duo.heap[duo.slot[i].addr]
             = Alone(duo.made, duo.slot[i].script, Len(duo.slot[i].outs)).self.ctx

\* C18 witness: two sessions of one Cipher object, under different keys, are
\* both between their update and the end of their script.
C18_Witness ==
  /\ duo.phase = "made"
  /\ duo.slot[1].pc \in 3 .. (LastCall - 1)
  /\ duo.slot[2].pc \in 3 .. (LastCall - 1)
  /\ duo.slot[1].script.key # duo.slot[2].script.key
  /\ duo.slot[1].outs[3].ok /\ duo.slot[2].outs[3].ok
  /\ Len(duo.slot[1].outs[3].out) > 0

====
